---------------------------- MODULE Spec2Model ----------------------------
(***************************************************************************)
(* Model of v2x_drowziness_2.py: the per-agent vehicle state engine        *)
(* (Vehicle.update_physics, Vehicle.update_visuals), the state codec       *)
(* (Vehicle.to_json / Vehicle.from_json) and the replication store of      *)
(* V2XApp (on_message, cleanup_ghosts, spawn_ambulance_click, run).        *)
(*                                                                         *)
(* Floats are fixed-point integers:                                        *)
(*   time      in 1/TimeUnit s                (dt, cooldowns, timestamps)  *)
(*   speed     in 1/SpdUnit m/s               (so 250/3.6 m/s = 6250)      *)
(*   position  in 1/PosUnit m, PosUnit = SpdUnit * TimeUnit                *)
(*             (so x += speed * dt is exact)                               *)
(*   visual lane in 1/VisUnit lane                                         *)
(* Every speed the model handles is a multiple of 5 units, so the factor   *)
(* 0.8 of the car-following rule is exact.                                 *)
(*                                                                         *)
(* Each V2XApp has two threads: the pygame loop of run() and the paho      *)
(* network thread started by loop_start(), which calls on_message.  The    *)
(* model interleaves them at the statement boundaries named by pc (loop)   *)
(* and net.pc (callback).                                                  *)
(***************************************************************************)
EXTENDS Integers, Sequences, FiniteSets, TLC

VARIABLES
    agents,               \* the V2XApp instances started (their uids)
    vehicles,             \* [a] self.vehicles: insertion-ordered dict, as a sequence of [key, v]
    i_own_ambulance,      \* [a] self.i_own_ambulance
    manual_drowsy,        \* [a] self.manual_drowsy
    detector_drowsy,      \* [a] self.detector.drowsy (written by the camera thread)
    any_drowsy_detected,  \* [a] self.any_drowsy_detected
    pc,                   \* [a] position of the run() loop
    dt,                   \* [a] run()'s local dt of the current frame
    now,                  \* [a] the agent's wall clock, time.time()
    net,                  \* [a] position and local d of the on_message callback
    published,            \* [a] the payloads the agent handed to client.publish last
    ghosts                \* [a] cleanup_ghosts' local list of the last sweep

vars == <<agents, vehicles, i_own_ambulance, manual_drowsy, detector_drowsy,
          any_drowsy_detected, pc, dt, now, net, published, ghosts>>

-----------------------------------------------------------------------------
(* Fixed-point scales *)
TimeUnit == 2
SpdUnit == 90
PosUnit == SpdUnit * TimeUnit
VisUnit == 100

(* class Config *)
LANE_COUNT == 4
SERVICE_LANE_INDEX == 3
TOTAL_LENGTH == 2000 * PosUnit
MAX_SPEED_KMH == 250
MAX_SPEED_MS == (MAX_SPEED_KMH * SpdUnit * 10) \div 36
ACCEL == (10 * SpdUnit) \div TimeUnit
BRAKE == (25 * SpdUnit) \div TimeUnit
LANE_CHANGE_SPEED == (2 * VisUnit) \div TimeUnit
SAFE_DIST == 200 * PosUnit
CRITICAL_DIST == 80 * PosUnit
AMBULANCE_DIST == 400 * PosUnit
GHOST_TIMEOUT == 3 * TimeUnit

(* Derived speed levels: MAX_SPEED_MS * 1.2 and MAX_SPEED_MS * 1.5 *)
EMERGENCY_TARGET == (MAX_SPEED_MS * 12) \div 10
SPEED_CAP == (MAX_SPEED_MS * 15) \div 10

(* float('inf'): larger than every distance the model can form *)
Inf == 1000 * TOTAL_LENGTH

AMB == "AMB-1"

Max(a, b) == IF a >= b THEN a ELSE b
Min(a, b) == IF a <= b THEN a ELSE b
Abs(a) == IF a >= 0 THEN a ELSE -a

-----------------------------------------------------------------------------
(* Python's None as a store value: a record that is no vehicle *)
None == [none |-> TRUE]
IsNone(v) == "none" \in DOMAIN v

(* self.vehicles: a dict keeps insertion order; a key assigned again keeps its place *)
Keys(st) == {st[i].key : i \in DOMAIN st}
Has(st, k) == k \in Keys(st)
Idx(st, k) == CHOOSE i \in DOMAIN st : st[i].key = k
Get(st, k) == st[Idx(st, k)].v
Put(st, k, v) ==
    IF Has(st, k) THEN [st EXCEPT ![Idx(st, k)] = [key |-> k, v |-> v]]
    ELSE Append(st, [key |-> k, v |-> v])
(* Del that deletes nothing *)
DelNothing(st, ks) == st

Del(st, ks) == SelectSeq(st, LAMBDA s : s.key \notin ks)
HasNone(st) == \E i \in DOMAIN st : IsNone(st[i].v)

(* Vehicle.__init__: rx, rspeed and rcolor are the random.randint draws *)
Vehicle(uid, is_emergency, rx, rspeed, rcolor, t) ==
    LET lane == IF ~is_emergency THEN 1 ELSE 0
        speed == IF is_emergency THEN MAX_SPEED_MS ELSE rspeed
    IN  [id |-> uid,
         is_emergency |-> is_emergency,
         lane |-> lane,
         visual_lane |-> lane * VisUnit,
         x |-> IF is_emergency THEN 0 ELSE rx,
         speed |-> speed,
         user_target_speed |-> 25 * SpdUnit,
         target_speed |-> speed,
         color |-> IF is_emergency THEN <<255, 215, 0>> ELSE rcolor,
         warning_vehicle_ahead |-> FALSE,
         braking |-> FALSE,
         drowsy_alert |-> FALSE,
         last_update |-> t,
         lane_change_cooldown |-> 0]


-----------------------------------------------------------------------------
(* Vehicle.update_physics, lines 158-174: the scan of all_vehicles.values() in
   dict order.  acc holds dist_to_ahead, speed_of_car_ahead (has_speed is FALSE
   for None) and ambulance_behind. *)
(* lines 164 and 166: d_ahead *)
d_ahead(self, other) ==
    LET d0 == other.x - self.x
    IN  IF d0 < 0 THEN d0 + TOTAL_LENGTH ELSE d0

(* lines 165 and 167: d_behind *)
d_behind(self, other) ==
    LET b0 == self.x - other.x
    IN  IF b0 < 0 THEN b0 + TOTAL_LENGTH ELSE b0

ScanStep(self, other, acc) ==
    IF other.id = self.id THEN acc
    ELSE
      LET nearer == other.lane = self.lane /\ d_ahead(self, other) < acc.dist_to_ahead
      IN  [dist_to_ahead |-> IF nearer THEN d_ahead(self, other) ELSE acc.dist_to_ahead,
           has_speed |-> IF nearer THEN TRUE ELSE acc.has_speed,
           speed_of_car_ahead |-> IF nearer THEN other.speed ELSE acc.speed_of_car_ahead,
           ambulance_behind |->
               \/ acc.ambulance_behind
               \/ (other.lane = self.lane /\ other.is_emergency
                   /\ d_behind(self, other) < AMBULANCE_DIST)]

RECURSIVE Scan(_, _, _, _)
Scan(st, self, i, acc) ==
    IF i > Len(st) THEN acc
    ELSE Scan(st, self, i + 1, ScanStep(self, st[i].v, acc))

ScanAll(st, self) ==
    Scan(st, self, 1, [dist_to_ahead |-> Inf, has_speed |-> FALSE,
                       speed_of_car_ahead |-> 0, ambulance_behind |-> FALSE])

(* lines 176-178 without the decrement of line 178 *)
ResetNoDecrement(self, d) ==
    [self EXCEPT !.warning_vehicle_ahead = FALSE, !.braking = FALSE]

(* lines 176-178: the flags are reset and the cooldown is decremented *)
Reset(self, d) ==
    [self EXCEPT !.warning_vehicle_ahead = FALSE,
                 !.braking = FALSE,
                 !.lane_change_cooldown = self.lane_change_cooldown - d]

(* Impaired without the lane move of lines 184-186 *)
ImpairedStaysPut(v0) ==
    LET v1 == [v0 EXCEPT !.drowsy_alert = TRUE]
    IN  IF v1.lane # SERVICE_LANE_INDEX THEN v1
        ELSE [v1 EXCEPT !.target_speed = 0, !.braking = TRUE]

(* lines 182-189: the branch of is_me_drowsy *)
Impaired(v0) ==
    LET v1 == [v0 EXCEPT !.drowsy_alert = TRUE]
    IN  IF v1.lane # SERVICE_LANE_INDEX THEN
          IF v1.lane_change_cooldown <= 0
          THEN [v1 EXCEPT !.lane = v1.lane + 1,
                          !.lane_change_cooldown = 1 * TimeUnit]
          ELSE v1
        ELSE [v1 EXCEPT !.target_speed = 0, !.braking = TRUE]

(* lines 191-209: the branches taken when is_me_drowsy is false *)
Driving(v0, sc) ==
    IF sc.ambulance_behind /\ ~v0.is_emergency /\ v0.lane_change_cooldown <= 0 THEN
      IF v0.lane < LANE_COUNT - 1
      THEN [v0 EXCEPT !.lane = v0.lane + 1, !.lane_change_cooldown = 2 * TimeUnit]
      ELSE IF v0.lane > 0
      THEN [v0 EXCEPT !.lane = v0.lane - 1, !.lane_change_cooldown = 2 * TimeUnit]
      ELSE v0
    ELSE IF v0.is_emergency THEN
      [v0 EXCEPT !.target_speed = EMERGENCY_TARGET]
    ELSE IF sc.dist_to_ahead < CRITICAL_DIST THEN
      [v0 EXCEPT !.target_speed = 0, !.warning_vehicle_ahead = TRUE, !.braking = TRUE]
    ELSE IF sc.dist_to_ahead < SAFE_DIST THEN
      [v0 EXCEPT !.target_speed = IF sc.has_speed
                                  THEN (sc.speed_of_car_ahead * 8) \div 10
                                  ELSE 10 * SpdUnit,
                 !.braking = TRUE,
                 !.warning_vehicle_ahead =
                     v0.speed > (IF sc.has_speed THEN sc.speed_of_car_ahead ELSE 0)]
    ELSE [v0 EXCEPT !.target_speed = v0.user_target_speed]

(* Rules with the critical-distance rule ahead of the impaired branch *)
RulesFollowingFirst(v0, sc, is_me_drowsy) ==
    IF is_me_drowsy /\ sc.dist_to_ahead >= CRITICAL_DIST
    THEN Impaired(v0) ELSE Driving(v0, sc)

(* lines 181-209: the if / elif chain *)
Rules(v0, sc, is_me_drowsy) ==
    IF is_me_drowsy THEN Impaired(v0) ELSE Driving(v0, sc)

(* lines 176-209: the decision of one tick *)
Decide(self, d, sc, is_me_drowsy) == Rules(Reset(self, d), sc, is_me_drowsy)

(* ClampSpeed without the min *)
ClampSpeedLowOnly(s) == Max(0, s)

(* line 215: self.speed = max(0, min(self.speed, MAX_SPEED_MS * 1.5)) *)
ClampSpeed(s) == Max(0, Min(s, SPEED_CAP))

(* line 217: if self.x > TOTAL_LENGTH: self.x = 0 *)
WrapX(x) == IF x > TOTAL_LENGTH THEN 0 ELSE x

(* lines 211-217: the kinematics *)
Kinematics(v, d) ==
    LET s1 == IF v.speed < v.target_speed THEN v.speed + ACCEL * d
              ELSE IF v.speed > v.target_speed THEN v.speed - BRAKE * d
              ELSE v.speed
        s2 == ClampSpeed(s1)
    IN  [v EXCEPT !.speed = s2, !.x = WrapX(v.x + s2 * d)]

(* Vehicle.update_physics on a store without None values *)
update_physics(self, d, st, is_me_drowsy) ==
    Kinematics(Decide(self, d, ScanAll(st, self), is_me_drowsy), d)

(* Vehicle.update_visuals *)
update_visuals(v, d) ==
    LET diff == v.lane * VisUnit - v.visual_lane
    IN  IF Abs(diff) * 100 > VisUnit THEN
          LET direction == IF diff > 0 THEN 1 ELSE -1
              moved == v.visual_lane + direction * LANE_CHANGE_SPEED * d
          IN  IF Abs(v.lane * VisUnit - moved) * 100 < 5 * VisUnit
              THEN [v EXCEPT !.visual_lane = v.lane * VisUnit]
              ELSE [v EXCEPT !.visual_lane = moved]
        ELSE [v EXCEPT !.visual_lane = v.lane * VisUnit]

-----------------------------------------------------------------------------
(* The wire: a payload is what json.loads makes of the message.  Garbage is a
   payload json.loads (or decode) rejects; any other payload is a JSON object,
   a function from the keys it carries to their values. *)
Garbage == [garbage |-> TRUE]
Parses(p) == "garbage" \notin DOMAIN p

(* Vehicle.to_json *)
to_json(v) ==
    [id |-> v.id, lane |-> v.lane, x |-> v.x, spd |-> v.speed,
     emb |-> v.is_emergency, col |-> v.color, drw |-> v.drowsy_alert,
     brk |-> v.braking]

(* d.get(key, False) *)
GetOr(d, k) == IF k \in DOMAIN d THEN d[k] ELSE FALSE

(* from_json without lines 242-243: the flags keep the defaults of __init__ *)
from_json_no_flags(p, rx, rspeed, rcolor, t) ==
    IF ~Parses(p) \/ ~({"id", "emb", "lane", "x", "spd", "col"} \subseteq DOMAIN p)
    THEN None
    ELSE [Vehicle(p.id, p.emb, rx, rspeed, rcolor, t) EXCEPT
             !.lane = p.lane, !.x = p.x, !.speed = p.spd, !.color = p.col,
             !.visual_lane = p.lane * VisUnit,
             !.last_update = t]

(* Vehicle.from_json: None when json.loads or any d[...] raises *)
from_json(p, rx, rspeed, rcolor, t) ==
    IF ~Parses(p) \/ ~({"id", "emb", "lane", "x", "spd", "col"} \subseteq DOMAIN p)
    THEN None
    ELSE [Vehicle(p.id, p.emb, rx, rspeed, rcolor, t) EXCEPT
             !.lane = p.lane, !.x = p.x, !.speed = p.spd, !.color = p.col,
             !.drowsy_alert = GetOr(p, "drw"),
             !.braking = GetOr(p, "brk"),
             !.visual_lane = p.lane * VisUnit,
             !.last_update = t]

-----------------------------------------------------------------------------
(* Bounds of the model *)
MaxTime == 8

(* Inputs *)
Uids == {"CAR1", "CAR2"}
MY_COLOR == <<0, 200, 255>>
RandColor == <<50, 50, 255>>
InitX == {0}
InitSpeed == {20 * SpdUnit, 30 * SpdUnit}
DTs == {2}
SpeedSteps == {-5 * SpdUnit, 5 * SpdUnit}

(* A well-formed message, as to_json builds it *)
Wire(id, lane, x, spd, emb, drw, brk) ==
    [id |-> id, lane |-> lane, x |-> x, spd |-> spd, emb |-> emb,
     col |-> RandColor, drw |-> drw, brk |-> brk]

(* json with some keys left out *)
Without(p, ks) == [k \in DOMAIN p \ ks |-> p[k]]

PeerWire ==
    {Wire("CAR2", 1, 500 * PosUnit, 20 * SpdUnit, FALSE, FALSE, FALSE)}

(* What the broker can deliver besides the agents' own publications: the topic
   is public, so any payload *)
EnvPayloads ==
    PeerWire
    \cup {Wire("CAR1", 2, 100 * PosUnit, 10 * SpdUnit, FALSE, TRUE, TRUE),
          Wire(AMB, 1, 300 * PosUnit, 60 * SpdUnit, TRUE, FALSE, FALSE),
          Without(Wire("CAR2", 3, 700 * PosUnit, 40 * SpdUnit, TRUE, TRUE, TRUE), {"lane"}),
          Without(Wire("CAR2", 3, 700 * PosUnit, 40 * SpdUnit, TRUE, TRUE, TRUE), {"col"}),
          [lane |-> 1],
          Garbage}

Inbound(a) == EnvPayloads \cup UNION {published[b] : b \in agents}

-----------------------------------------------------------------------------
Me(a) == Get(vehicles[a], a)
Alive(a) == pc[a] # "crashed"

(* V2XApp.__init__, lines 269-271: self.vehicles = {uid: self.my_vehicle} *)
OwnStore(a, xs, speeds) ==
    {<<[key |-> a,
        v |-> [Vehicle(a, FALSE, rx, rs, RandColor, 0) EXCEPT !.color = MY_COLOR]]>> :
     rx \in xs, rs \in speeds}

(* V2XApp.__init__, lines 269-276; stores[a] are the stores agent a may start with *)
NewApp(as, stores) ==
    /\ agents = as
    /\ vehicles \in {f \in [as -> UNION {stores[a] : a \in as}] :
                         \A a \in as : f[a] \in stores[a]}
    /\ i_own_ambulance = [a \in as |-> FALSE]
    /\ manual_drowsy = [a \in as |-> FALSE]
    /\ detector_drowsy = [a \in as |-> FALSE]
    /\ any_drowsy_detected = [a \in as |-> FALSE]
    /\ pc = [a \in as |-> "events"]
    /\ dt = [a \in as |-> 0]
    /\ now = [a \in as |-> 0]
    /\ net = [a \in as |-> [pc |-> "idle", payload |-> None]]
    /\ published = [a \in as |-> {}]
    /\ ghosts = [a \in as |-> {}]

Init == NewApp({"CAR1"}, [a \in {"CAR1"} |-> OwnStore(a, InitX, InitSpeed)])

(* run, lines 392-393: the X key *)
ToggleManualDrowsy(a) ==
    /\ pc[a] = "events"
    /\ manual_drowsy' = [manual_drowsy EXCEPT ![a] = ~manual_drowsy[a]]
    /\ UNCHANGED <<agents, vehicles, i_own_ambulance, detector_drowsy,
                   any_drowsy_detected, pc, dt, now, net, published, ghosts>>

(* UniversalDetector.loop, lines 84-91: the camera thread sets or clears drowsy *)
DetectorLoop(a) ==
    /\ Alive(a)
    /\ detector_drowsy' = [detector_drowsy EXCEPT ![a] = ~detector_drowsy[a]]
    /\ UNCHANGED <<agents, vehicles, i_own_ambulance, manual_drowsy,
                   any_drowsy_detected, pc, dt, now, net, published, ghosts>>

(* V2XApp.change_lane *)
change_lane(a, d) ==
    /\ pc[a] = "events"
    /\ LET new_lane == Me(a).lane + d
       IN  /\ 0 <= new_lane /\ new_lane < LANE_COUNT
           /\ vehicles' = [vehicles EXCEPT ![a] =
                             Put(@, a, [Me(a) EXCEPT !.lane = new_lane])]
    /\ UNCHANGED <<agents, i_own_ambulance, manual_drowsy, detector_drowsy,
                   any_drowsy_detected, pc, dt, now, net, published, ghosts>>

(* chg_speed without the clamp of line 315 *)
chg_speed_no_clamp(a, d) ==
    /\ pc[a] = "events"
    /\ vehicles' = [vehicles EXCEPT ![a] =
           Put(@, a, [Me(a) EXCEPT !.user_target_speed = Me(a).user_target_speed + d])]
    /\ UNCHANGED <<agents, i_own_ambulance, manual_drowsy, detector_drowsy,
                   any_drowsy_detected, pc, dt, now, net, published, ghosts>>

(* V2XApp.chg_speed *)
chg_speed(a, d) ==
    /\ pc[a] = "events"
    /\ vehicles' = [vehicles EXCEPT ![a] =
           Put(@, a, [Me(a) EXCEPT !.user_target_speed =
                         Max(0, Min(Me(a).user_target_speed + d, MAX_SPEED_MS))])]
    /\ UNCHANGED <<agents, i_own_ambulance, manual_drowsy, detector_drowsy,
                   any_drowsy_detected, pc, dt, now, net, published, ghosts>>

(* V2XApp.spawn_ambulance_click, lines 318-320: the test and the insertion *)
spawn_ambulance_click(a) ==
    /\ pc[a] = "events"
    /\ ~Has(vehicles[a], AMB)
    /\ vehicles' = [vehicles EXCEPT ![a] =
                      Put(@, AMB, Vehicle(AMB, TRUE, 0, 0, RandColor, now[a]))]
    /\ pc' = [pc EXCEPT ![a] = "spawn_flag"]
    /\ UNCHANGED <<agents, i_own_ambulance, manual_drowsy, detector_drowsy,
                   any_drowsy_detected, dt, now, net, published, ghosts>>

(* V2XApp.spawn_ambulance_click, line 321: self.i_own_ambulance = True *)
spawn_set_owner(a) ==
    /\ pc[a] = "spawn_flag"
    /\ i_own_ambulance' = [i_own_ambulance EXCEPT ![a] = TRUE]
    /\ pc' = [pc EXCEPT ![a] = "events"]
    /\ UNCHANGED <<agents, vehicles, manual_drowsy, detector_drowsy,
                   any_drowsy_detected, dt, now, net, published, ghosts>>

-----------------------------------------------------------------------------
(* An uncaught exception ends run(), and with it the process *)
Crash(a) ==
    /\ pc' = [pc EXCEPT ![a] = "crashed"]
    /\ UNCHANGED <<agents, vehicles, i_own_ambulance, manual_drowsy, detector_drowsy,
                   any_drowsy_detected, net, published, ghosts>>

(* client.publish(TOPIC_VEHICLE, json): the agent's last publication per id *)
Publish(pub, p) == {q \in pub : q.id # p.id} \cup {p}

(* run, lines 402-404 *)
AnyDrowsy(st, is_drowsy) == is_drowsy \/ \E i \in DOMAIN st : st[i].v.drowsy_alert

(* run, lines 386 and 399-404: the frame's dt, then the own vehicle's
   update_physics and the any_drowsy_detected scan.  other.id of a None value
   raises AttributeError. *)
UpdateMe(a, dts, tmax) ==
    /\ pc[a] = "events"
    /\ \E d \in dts :
         /\ now[a] + d <= tmax
         /\ dt' = [dt EXCEPT ![a] = d]
         /\ now' = [now EXCEPT ![a] = @ + d]
         /\ IF HasNone(vehicles[a]) THEN Crash(a)
            ELSE LET is_drowsy == detector_drowsy[a] \/ manual_drowsy[a]
                     st == Put(vehicles[a], a,
                               update_physics(Me(a), d, vehicles[a], is_drowsy))
                 IN  /\ vehicles' = [vehicles EXCEPT ![a] = st]
                     /\ any_drowsy_detected' =
                            [any_drowsy_detected EXCEPT ![a] = AnyDrowsy(st, is_drowsy)]
                     /\ pc' = [pc EXCEPT ![a] = "amb"]
                     /\ UNCHANGED <<agents, i_own_ambulance, manual_drowsy,
                                    detector_drowsy, net, published, ghosts>>

(* run, lines 406-409: the owned ambulance's update_physics and publication *)
UpdateAmb(a) ==
    /\ pc[a] = "amb"
    /\ UNCHANGED <<dt, now>>
    /\ IF i_own_ambulance[a] /\ Has(vehicles[a], AMB) THEN
         IF HasNone(vehicles[a]) THEN Crash(a)
         ELSE LET amb == update_physics(Get(vehicles[a], AMB), dt[a], vehicles[a], FALSE)
              IN  /\ vehicles' = [vehicles EXCEPT ![a] = Put(@, AMB, amb)]
                  /\ published' = [published EXCEPT ![a] = Publish(@, to_json(amb))]
                  /\ pc' = [pc EXCEPT ![a] = "visuals"]
                  /\ UNCHANGED <<agents, i_own_ambulance, manual_drowsy, detector_drowsy,
                                 any_drowsy_detected, net, ghosts>>
       ELSE /\ pc' = [pc EXCEPT ![a] = "visuals"]
            /\ UNCHANGED <<agents, vehicles, i_own_ambulance, manual_drowsy,
                           detector_drowsy, any_drowsy_detected, net, published, ghosts>>

(* run, lines 411-412: update_visuals of every value, then the own publication *)
UpdateVisuals(a) ==
    /\ pc[a] = "visuals"
    /\ UNCHANGED <<dt, now>>
    /\ IF HasNone(vehicles[a]) THEN Crash(a)
       ELSE LET st == [i \in DOMAIN vehicles[a] |->
                          [key |-> vehicles[a][i].key,
                           v |-> update_visuals(vehicles[a][i].v, dt[a])]]
            IN  /\ vehicles' = [vehicles EXCEPT ![a] = st]
                /\ published' = [published EXCEPT ![a] = Publish(@, to_json(Get(st, a)))]
                /\ pc' = [pc EXCEPT ![a] = "cleanup"]
                /\ UNCHANGED <<agents, i_own_ambulance, manual_drowsy, detector_drowsy,
                               any_drowsy_detected, net, ghosts>>

(* Stale with the comparison >= for > *)
StaleAtTimeout(st, me, t) ==
    {st[i].key : i \in {j \in DOMAIN st :
                          st[j].key # me /\ t - st[j].v.last_update >= GHOST_TIMEOUT}}

(* cleanup_ghosts, lines 341-343: the ids whose entry is older than GHOST_TIMEOUT *)
Stale(st, me, t) ==
    {st[i].key : i \in {j \in DOMAIN st :
                          st[j].key # me /\ t - st[j].v.last_update > GHOST_TIMEOUT}}

(* Ghosts without line 344 *)
GhostsNoExemption(st, me, t, own) == Stale(st, me, t)

(* cleanup_ghosts, line 344: the owned ambulance is taken off the list *)
Ghosts(st, me, t, own) == IF own THEN Stale(st, me, t) \ {AMB} ELSE Stale(st, me, t)

(* cleanup_ghosts: v.last_update of a None value (under another key than the
   agent's own) raises AttributeError *)
cleanup_ghosts(a) ==
    /\ pc[a] = "cleanup"
    /\ UNCHANGED <<dt, now>>
    /\ IF \E i \in DOMAIN vehicles[a] :
              vehicles[a][i].key # a /\ IsNone(vehicles[a][i].v)
       THEN Crash(a)
       ELSE LET gs == Ghosts(vehicles[a], a, now[a], i_own_ambulance[a])
            IN  /\ ghosts' = [ghosts EXCEPT ![a] = gs]
                /\ vehicles' = [vehicles EXCEPT ![a] = Del(@, gs)]
                /\ pc' = [pc EXCEPT ![a] = "events"]
                /\ UNCHANGED <<agents, i_own_ambulance, manual_drowsy, detector_drowsy,
                               any_drowsy_detected, net, published>>

-----------------------------------------------------------------------------
(* Branch without the guard of line 327 *)
BranchNoOwnGuard(a, p) ==
    IF ~Parses(p) \/ "id" \notin DOMAIN p THEN "idle"
    ELSE IF p.id = AMB /\ i_own_ambulance[a] THEN "idle"
    ELSE IF ~Has(vehicles[a], p.id) THEN "insert"
    ELSE "update"

(* on_message, lines 325-329 and 331: decode, json.loads, the two guards and
   the membership test.  Any exception is swallowed by the except clause. *)
Branch(a, p) ==
    IF ~Parses(p) \/ "id" \notin DOMAIN p THEN "idle"
    ELSE IF p.id = a THEN "idle"
    ELSE IF p.id = AMB /\ i_own_ambulance[a] THEN "idle"
    ELSE IF ~Has(vehicles[a], p.id) THEN "insert"
    ELSE "update"

on_message(a, p) ==
    /\ Alive(a)
    /\ net[a].pc = "idle"
    /\ net' = [net EXCEPT ![a] = [pc |-> Branch(a, p), payload |-> p]]
    /\ UNCHANGED <<agents, vehicles, i_own_ambulance, manual_drowsy, detector_drowsy,
                   any_drowsy_detected, pc, dt, now, published, ghosts>>

(* on_message, lines 333-336: the assignments to the replica, in order; the
   first missing key raises KeyError and ends them *)
Merge(v, d, t) ==
    IF "x" \notin DOMAIN d THEN v
    ELSE IF "lane" \notin DOMAIN d THEN [v EXCEPT !.x = d.x]
    ELSE IF "spd" \notin DOMAIN d THEN [v EXCEPT !.x = d.x, !.lane = d.lane]
    ELSE IF "emb" \notin DOMAIN d
    THEN [v EXCEPT !.x = d.x, !.lane = d.lane, !.speed = d.spd]
    ELSE [v EXCEPT !.x = d.x, !.lane = d.lane, !.speed = d.spd,
                   !.is_emergency = d.emb,
                   !.drowsy_alert = GetOr(d, "drw"),
                   !.braking = GetOr(d, "brk"),
                   !.last_update = t]

(* on_message, line 330: self.vehicles[d['id']] = Vehicle.from_json(payload) *)
on_message_insert(a) ==
    /\ Alive(a)
    /\ net[a].pc = "insert"
    /\ \E rs \in InitSpeed :
         vehicles' = [vehicles EXCEPT ![a] =
             Put(@, net[a].payload.id,
                 from_json(net[a].payload, 0, rs, RandColor, now[a]))]
    /\ net' = [net EXCEPT ![a].pc = "idle"]
    /\ UNCHANGED <<agents, i_own_ambulance, manual_drowsy, detector_drowsy,
                   any_drowsy_detected, pc, dt, now, published, ghosts>>

(* on_message, lines 332-336: v = self.vehicles[d['id']] and the assignments.
   A key swept meanwhile raises KeyError, a None value AttributeError. *)
on_message_update(a) ==
    /\ Alive(a)
    /\ net[a].pc = "update"
    /\ LET d == net[a].payload
       IN  IF Has(vehicles[a], d.id) /\ ~IsNone(Get(vehicles[a], d.id))
           THEN vehicles' = [vehicles EXCEPT ![a] =
                               Put(@, d.id, Merge(Get(vehicles[a], d.id), d, now[a]))]
           ELSE UNCHANGED vehicles
    /\ net' = [net EXCEPT ![a].pc = "idle"]
    /\ UNCHANGED <<agents, i_own_ambulance, manual_drowsy, detector_drowsy,
                   any_drowsy_detected, pc, dt, now, published, ghosts>>

-----------------------------------------------------------------------------
(* One agent on a public topic: the loop of run() with one-second frames, the
   summon button, and the network thread delivering any payload at any point *)
Next ==
    \/ \E a \in agents : spawn_ambulance_click(a)
    \/ \E a \in agents : spawn_set_owner(a)
    \/ \E a \in agents : UpdateMe(a, DTs, MaxTime)
    \/ \E a \in agents : UpdateAmb(a)
    \/ \E a \in agents : UpdateVisuals(a)
    \/ \E a \in agents : cleanup_ghosts(a)
    \/ \E a \in agents : \E p \in Inbound(a) : on_message(a, p)
    \/ \E a \in agents : on_message_insert(a)
    \/ \E a \in agents : on_message_update(a)

Spec == Init /\ [][Next]_vars

-----------------------------------------------------------------------------
(* Two agents on the topic: each runs its loop and its summon button, and the
   broker delivers to each what any of them published last *)
FleetMaxTime == 2

Broker(a) == UNION {published[b] : b \in agents}

InitFleet == NewApp(Uids, [a \in Uids |-> OwnStore(a, InitX, {25 * SpdUnit})])

NextFleet ==
    \/ \E a \in agents : spawn_ambulance_click(a)
    \/ \E a \in agents : spawn_set_owner(a)
    \/ \E a \in agents : UpdateMe(a, DTs, FleetMaxTime)
    \/ \E a \in agents : UpdateAmb(a)
    \/ \E a \in agents : UpdateVisuals(a)
    \/ \E a \in agents : cleanup_ghosts(a)
    \/ \E a \in agents : \E p \in Broker(a) : on_message(a, p)
    \/ \E a \in agents : on_message_insert(a)
    \/ \E a \in agents : on_message_update(a)

SpecFleet == InitFleet /\ [][NextFleet]_vars

-----------------------------------------------------------------------------
(* The decision engine and the kinematics on their own: one agent, no network
   thread, the user's keys and buttons, and frames of several lengths (a frame
   lasts as long as the loop was held up).  The initial states are states the
   loop reaches: the own vehicle somewhere on the track at a speed it can have,
   beside replicas that earlier messages created. *)
PhysMaxTime == 8
PhysDTs == {2, 8}
PhysX == {0, 1975 * PosUnit}
PhysSpeed == {5 * SpdUnit, 25 * SpdUnit, 30 * SpdUnit}

Replica(p) == [key |-> p.id, v |-> from_json(p, 0, 25 * SpdUnit, RandColor, 0)]

PhysPeers ==
    {<<>>,
     <<Replica(Wire("CAR2", 1, 50 * PosUnit, 0, FALSE, FALSE, FALSE))>>,
     <<Replica(Wire("CAR2", 1, 150 * PosUnit, 20 * SpdUnit, FALSE, FALSE, FALSE))>>,
     <<Replica(Wire(AMB, 1, 1650 * PosUnit, 60 * SpdUnit, TRUE, FALSE, FALSE))>>}

InitPhys ==
    NewApp({"CAR1"},
           [a \in {"CAR1"} |->
               {own \o peers : own \in OwnStore(a, PhysX, PhysSpeed),
                               peers \in PhysPeers}])

NextPhys ==
    \/ \E a \in agents : ToggleManualDrowsy(a)
    \/ \E a \in agents : DetectorLoop(a)
    \/ \E a \in agents : \E d \in {-1, 1} : change_lane(a, d)
    \/ \E a \in agents : spawn_ambulance_click(a)
    \/ \E a \in agents : spawn_set_owner(a)
    \/ \E a \in agents : UpdateMe(a, PhysDTs, PhysMaxTime)
    \/ \E a \in agents : UpdateAmb(a)
    \/ \E a \in agents : UpdateVisuals(a)
    \/ \E a \in agents : cleanup_ghosts(a)

SpecPhys == InitPhys /\ [][NextPhys]_vars

-----------------------------------------------------------------------------
(* The rule chain over short frames: one agent, no network thread, every user
   command on the own vehicle's lane and on the impairment signal (the X key,
   the detector, the lane buttons) and frames of half a second and of one second.  The initial stores
   hold the own vehicle beside one replica that an earlier message created:
   a stopped car just ahead, an ambulance behind on the same lane or on the
   outermost lane, or a peer that published the position TOTAL_LENGTH (the
   position a vehicle has after the frame 1975 + 25 * 1.0, which line 217 does
   not wrap). *)
RulesMaxTime == 4
RulesDTs == {1, 2}
RulesX == {0, 1975 * PosUnit}
RulesSpeed == {25 * SpdUnit}

RulesPeers ==
    {<<>>,
     <<Replica(Wire("CAR2", 1, 50 * PosUnit, 0, FALSE, FALSE, FALSE))>>,
     <<Replica(Wire("CAR2", 1, TOTAL_LENGTH, 25 * SpdUnit, FALSE, FALSE, FALSE))>>,
     <<Replica(Wire(AMB, 1, 1650 * PosUnit, 60 * SpdUnit, TRUE, FALSE, FALSE))>>,
     <<Replica(Wire(AMB, 3, 1650 * PosUnit, 60 * SpdUnit, TRUE, FALSE, FALSE))>>,
     <<Replica(Wire(AMB, 1, 0, 60 * SpdUnit, TRUE, FALSE, FALSE))>>}

InitRules ==
    NewApp({"CAR1"},
           [a \in {"CAR1"} |->
               {own \o peers : own \in OwnStore(a, RulesX, RulesSpeed),
                               peers \in RulesPeers}])

NextRules ==
    \/ \E a \in agents : ToggleManualDrowsy(a)
    \/ \E a \in agents : DetectorLoop(a)
    \/ \E a \in agents : \E d \in {-1, 1} : change_lane(a, d)
    \/ \E a \in agents : UpdateMe(a, RulesDTs, RulesMaxTime)
    \/ \E a \in agents : UpdateAmb(a)
    \/ \E a \in agents : UpdateVisuals(a)
    \/ \E a \in agents : cleanup_ghosts(a)

SpecRules == InitRules /\ [][NextRules]_vars

-----------------------------------------------------------------------------
(* The user's commands: one agent, no network thread, the X key, the lane and
   the speed buttons, the summon button, and one-second frames.  The initial
   stores hold the own vehicle alone or beside the replica of an ambulance
   behind it, on its lane or on the outermost lane. *)
ButtonsMaxTime == 4

ButtonsPeers ==
    {<<>>,
     <<Replica(Wire(AMB, 1, 1650 * PosUnit, 60 * SpdUnit, TRUE, FALSE, FALSE))>>,
     <<Replica(Wire(AMB, 3, 1650 * PosUnit, 60 * SpdUnit, TRUE, FALSE, FALSE))>>}

InitButtons ==
    NewApp({"CAR1"},
           [a \in {"CAR1"} |->
               {own \o peers : own \in OwnStore(a, InitX, RulesSpeed),
                               peers \in ButtonsPeers}])

NextButtons ==
    \/ \E a \in agents : ToggleManualDrowsy(a)
    \/ \E a \in agents : \E d \in {-1, 1} : change_lane(a, d)
    \/ \E a \in agents : \E d \in SpeedSteps : chg_speed(a, d)
    \/ \E a \in agents : spawn_ambulance_click(a)
    \/ \E a \in agents : spawn_set_owner(a)
    \/ \E a \in agents : UpdateMe(a, DTs, ButtonsMaxTime)
    \/ \E a \in agents : UpdateAmb(a)
    \/ \E a \in agents : UpdateVisuals(a)
    \/ \E a \in agents : cleanup_ghosts(a)

SpecButtons == InitButtons /\ [][NextButtons]_vars

-----------------------------------------------------------------------------
(* The agent of the one-agent specifications *)
Solo == "CAR1"

(* The loop of run() never blocks: each of its steps is taken if it stays
   enabled (until the model's clock reaches tmax) *)
LoopFairness(dts, tmax) ==
    /\ WF_vars(\E a \in agents : UpdateMe(a, dts, tmax))
    /\ WF_vars(\E a \in agents : UpdateAmb(a))
    /\ WF_vars(\E a \in agents : UpdateVisuals(a))
    /\ WF_vars(\E a \in agents : cleanup_ghosts(a))

-----------------------------------------------------------------------------
(* A peer that falls silent: one agent whose loop keeps running, and a peer
   CAR2 whose broadcasts are delivered, at any point of the loop, until the
   agent's clock reaches PeerSilentAt and never after *)
SweepMaxTime == 14
PeerSilentAt == 4

PeerBroadcast(a) ==
    /\ now[a] < PeerSilentAt
    /\ \E p \in PeerWire : on_message(a, p)

NextSweep ==
    \/ \E a \in agents : UpdateMe(a, DTs, SweepMaxTime)
    \/ \E a \in agents : UpdateAmb(a)
    \/ \E a \in agents : UpdateVisuals(a)
    \/ \E a \in agents : cleanup_ghosts(a)
    \/ \E a \in agents : PeerBroadcast(a)
    \/ \E a \in agents : on_message_insert(a)
    \/ \E a \in agents : on_message_update(a)

SpecSweep == Init /\ [][NextSweep]_vars /\ LoopFairness(DTs, SweepMaxTime)

-----------------------------------------------------------------------------
(* The impaired driver: one agent whose loop keeps running, the X key as the
   impairment signal, no lane command, frames of half a second and of one
   second; the own vehicle starts behind a stopped car or ahead of an
   ambulance *)
PullOverMaxTime == 10

PullOverPeers ==
    {<<Replica(Wire("CAR2", 1, 50 * PosUnit, 0, FALSE, FALSE, FALSE))>>,
     <<Replica(Wire(AMB, 1, 1650 * PosUnit, 60 * SpdUnit, TRUE, FALSE, FALSE))>>}

InitPullOver ==
    NewApp({Solo},
           [a \in {Solo} |->
               {own \o peers : own \in OwnStore(a, InitX, InitSpeed),
                               peers \in PullOverPeers}])

NextPullOver ==
    \/ \E a \in agents : ToggleManualDrowsy(a)
    \/ \E a \in agents : UpdateMe(a, RulesDTs, PullOverMaxTime)
    \/ \E a \in agents : UpdateAmb(a)
    \/ \E a \in agents : UpdateVisuals(a)
    \/ \E a \in agents : cleanup_ghosts(a)

SpecPullOver ==
    InitPullOver /\ [][NextPullOver]_vars /\ LoopFairness(RulesDTs, PullOverMaxTime)

-----------------------------------------------------------------------------
(* Vocabulary of the properties *)
HasId(p) == Parses(p) /\ "id" \in DOMAIN p
Malformed(p) ==
    ~Parses(p) \/ ~({"id", "lane", "x", "spd", "emb", "col"} \subseteq DOMAIN p)

IsOwnId(a, p) == HasId(p) /\ p.id = a
IsAmbId(p) == HasId(p) /\ p.id = AMB

(* The loop of run() is part-way through a frame's update steps *)
MidTick == {"amb", "visuals", "cleanup"}

(* C1: a message carrying the agent's own id changes nothing of the agent's
   store, own vehicle included, at any step of the callback that handles it. *)
C1_OwnershipImmutability ==
    [][\A a \in agents :
          (net'[a] # net[a] /\ IsOwnId(a, net'[a].payload))
              => /\ vehicles'[a] = vehicles[a]
                 /\ i_own_ambulance'[a] = i_own_ambulance[a]]_vars

(* C1 witness: the callback has returned from a message with the own id whose
   lane, position and speed differ from the own vehicle's, after the vehicle
   has moved. *)
C1_Witness ==
    \E a \in agents :
        /\ net[a].pc = "idle"
        /\ IsOwnId(a, net[a].payload)
        /\ now[a] > 0
        /\ net[a].payload.lane # Me(a).lane
        /\ net[a].payload.x # Me(a).x
        /\ net[a].payload.spd # Me(a).speed

(* C2: a malformed message (unparseable, or lacking one of id, lane, x, spd,
   emb, col) leaves the store as it was: nothing added, removed or changed. *)
C2_MalformedDropped ==
    [][\A a \in agents :
          (net'[a] # net[a] /\ Malformed(net'[a].payload))
              => vehicles'[a] = vehicles[a]]_vars

(* C3: run() never ends in an uncaught exception.  (The claim's reason, that
   every store value is a usable vehicle, is what fails first: see HasNone.) *)
C3_NoFatalError == \A a \in agents : pc[a] # "crashed"

(* C4: while the loop is part-way through a frame and does not itself step,
   the store does not change. *)
C4_SingleWriter ==
    [][\A a \in agents :
          (pc[a] \in MidTick /\ pc'[a] = pc[a]) => vehicles'[a] = vehicles[a]]_vars

(* C5: across the agents sharing the topic, at most one has its ownership flag
   of AMB-1 set. *)
C5_SingleAmbulanceOwner ==
    Cardinality({a \in agents : i_own_ambulance[a]}) <= 1

(* C6: once spawn_ambulance_click has created the local AMB-1 entry, no step of
   the callback for a message with id AMB-1 changes that entry. *)
C6_OwnershipGuard ==
    [][\A a \in agents :
          (/\ pc[a] = "spawn_flag" \/ i_own_ambulance[a]
           /\ Has(vehicles[a], AMB)
           /\ net'[a] # net[a]
           /\ IsAmbId(net'[a].payload))
              => /\ Has(vehicles'[a], AMB)
                 /\ Get(vehicles'[a], AMB) = Get(vehicles[a], AMB)]_vars

(* C7: a sweep that returns has removed every replica (not the own id, not an
   owned AMB-1) older than GHOST_TIMEOUT and has kept, unchanged, every replica
   of age GHOST_TIMEOUT or less. *)
C7_GhostEvictionBoundary ==
    [][\A a \in agents :
          (pc[a] = "cleanup" /\ pc'[a] = "events") =>
              \A i \in DOMAIN vehicles[a] :
                  LET k == vehicles[a][i].key
                      v == vehicles[a][i].v
                  IN  (k # a /\ ~(k = AMB /\ i_own_ambulance[a])) =>
                        /\ (now[a] - v.last_update > GHOST_TIMEOUT)
                               => ~Has(vehicles'[a], k)
                        /\ (now[a] - v.last_update <= GHOST_TIMEOUT)
                               => (Has(vehicles'[a], k) /\ Get(vehicles'[a], k) = v)]_vars

(* C7 witness: one sweep has just removed CAR2, older than GHOST_TIMEOUT, and
   kept a replica of AMB-1 whose age is exactly GHOST_TIMEOUT. *)
C7_Witness ==
    \E a \in agents :
        /\ pc[a] = "events"
        /\ "CAR2" \in ghosts[a]
        /\ ~Has(vehicles[a], "CAR2")
        /\ ~i_own_ambulance[a]
        /\ Has(vehicles[a], AMB)
        /\ ~IsNone(Get(vehicles[a], AMB))
        /\ now[a] - Get(vehicles[a], AMB).last_update = GHOST_TIMEOUT

(* C8: the agent's own id is always a key of its store, and so is AMB-1
   whenever the agent owns it. *)
C8_SweepExemptions ==
    \A a \in agents :
        /\ Has(vehicles[a], a)
        /\ i_own_ambulance[a] => Has(vehicles[a], AMB)

(* C8 witness: a sweep has just removed CAR2 and left the own vehicle and the
   owned AMB-1, both older than GHOST_TIMEOUT. *)
C8_Witness ==
    \E a \in agents :
        /\ pc[a] = "events"
        /\ ghosts[a] = {"CAR2"}
        /\ i_own_ambulance[a]
        /\ Has(vehicles[a], AMB)
        /\ ~IsNone(Get(vehicles[a], AMB))
        /\ now[a] - Get(vehicles[a], AMB).last_update > GHOST_TIMEOUT
        /\ now[a] - Me(a).last_update > GHOST_TIMEOUT

SpeedInRange(s) == 0 <= s /\ s <= SPEED_CAP

(* C9: after the kinematics of the own vehicle, and after the kinematics of an
   owned AMB-1, the vehicle's speed is within [0, 1.5 * MAX_SPEED_MS]. *)
C9_SpeedBound ==
    [][\A a \in agents :
          /\ (pc[a] = "events" /\ pc'[a] = "amb")
                 => SpeedInRange(Get(vehicles'[a], a).speed)
          /\ (pc[a] = "amb" /\ pc'[a] = "visuals"
                 /\ i_own_ambulance[a] /\ Has(vehicles[a], AMB))
                 => SpeedInRange(Get(vehicles'[a], AMB).speed)]_vars

(* C9 witness: both clamps have just acted in one frame: the own vehicle braked
   to 0 and the owned AMB-1 accelerated to the cap, over a frame long enough
   for the unclamped speeds to pass both ends. *)
C9_Witness ==
    \E a \in agents :
        /\ pc[a] = "visuals"
        /\ i_own_ambulance[a]
        /\ Has(vehicles[a], AMB)
        /\ Get(vehicles[a], AMB).speed = SPEED_CAP
        /\ MAX_SPEED_MS + ACCEL * dt[a] > SPEED_CAP
        /\ Me(a).speed = 0
        /\ Me(a).braking

(* C10: after the kinematics of the own vehicle, and of an owned AMB-1, its
   position is in [0, TOTAL_LENGTH). *)
C10_PositionRange ==
    \A a \in agents :
        /\ pc[a] = "amb"
              => (0 <= Me(a).x /\ Me(a).x < TOTAL_LENGTH)
        /\ (pc[a] = "visuals" /\ i_own_ambulance[a] /\ Has(vehicles[a], AMB))
              => (0 <= Get(vehicles[a], AMB).x /\ Get(vehicles[a], AMB).x < TOTAL_LENGTH)

-----------------------------------------------------------------------------
(* run, line 399: is_drowsy *)
IsDrowsy(a) == detector_drowsy[a] \/ manual_drowsy[a]

(* The step of run() that holds line 400: the own vehicle's update_physics *)
OwnTick(a) == pc[a] = "events" /\ pc'[a] = "amb"

(* C11 as stated: on every tick where the driver is impaired and the own
   vehicle is off the service lane, the lane moves by exactly one step toward
   the service lane, and target speed, braking and warning are not set by any
   other rule. *)
C11_AlwaysMoves ==
    [][\A a \in agents :
          (OwnTick(a) /\ IsDrowsy(a) /\ Me(a).lane # SERVICE_LANE_INDEX)
              => LET v == Get(vehicles'[a], a)
                 IN  /\ v.lane = Me(a).lane + 1
                     /\ v.target_speed = Me(a).target_speed
                     /\ ~v.braking
                     /\ ~v.warning_vehicle_ahead]_vars

(* C11 amended: on every tick where the driver is impaired and the own vehicle
   is off the service lane, drowsy_alert is set, the lane moves by exactly one
   step toward the service lane if the cooldown, less the frame's dt, has run
   out and stays as it is otherwise, and no other rule takes effect: the target
   speed is unchanged, braking and warning are false. *)
C11_PriorityChain ==
    [][\A a \in agents :
          (OwnTick(a) /\ IsDrowsy(a) /\ Me(a).lane # SERVICE_LANE_INDEX)
              => LET v == Get(vehicles'[a], a)
                 IN  /\ v.drowsy_alert
                     /\ v.lane = IF Me(a).lane_change_cooldown - dt'[a] <= 0
                                 THEN Me(a).lane + 1 ELSE Me(a).lane
                     /\ v.lane <= SERVICE_LANE_INDEX
                     /\ v.target_speed = Me(a).target_speed
                     /\ ~v.braking
                     /\ ~v.warning_vehicle_ahead]_vars

(* C11 witness: an impaired tick has just left the own vehicle on lane 2, off
   the service lane, because the cooldown of the move before it had not run
   out, with a stopped car within CRITICAL_DIST ahead in the store. *)
C11_Witness ==
    \E a \in agents :
        /\ pc[a] = "amb"
        /\ IsDrowsy(a)
        /\ Me(a).drowsy_alert
        /\ Me(a).lane = 2
        /\ Me(a).lane_change_cooldown > 0
        /\ Me(a).lane_change_cooldown < 1 * TimeUnit
        /\ Has(vehicles[a], "CAR2")
        /\ Get(vehicles[a], "CAR2").x - Me(a).x \in 0 .. (CRITICAL_DIST - 1)

-----------------------------------------------------------------------------
(* Distances on the circular track, as the specification defines them *)
CircAhead(v, w) == (w.x - v.x) % TOTAL_LENGTH
CircBehind(v, w) == (v.x - w.x) % TOTAL_LENGTH

(* The other vehicles of agent a's store that share the own vehicle's lane *)
SameLane(a) ==
    {vehicles[a][i].v : i \in {j \in DOMAIN vehicles[a] :
                                 /\ vehicles[a][j].key # a
                                 /\ vehicles[a][j].v.lane = Me(a).lane}}

(* The yield-to-emergency rule applies to the own vehicle in a frame of length
   d: an emergency vehicle on its lane is less than AMBULANCE_DIST behind it on
   the circle and the cooldown has run out *)
YieldApplies(a, d) ==
    /\ ~Me(a).is_emergency
    /\ Me(a).lane_change_cooldown - d <= 0
    /\ \E w \in SameLane(a) : w.is_emergency /\ CircBehind(Me(a), w) < AMBULANCE_DIST

(* C12: on a tick where the driver is not impaired and the yield rule does not
   apply, if some other known vehicle on the own vehicle's lane is less than
   CRITICAL_DIST ahead on the circle, the decision is target speed 0, braking
   and warning. *)
C12_CriticalDistance ==
    [][\A a \in agents :
          (/\ OwnTick(a)
           /\ ~IsDrowsy(a)
           /\ ~Me(a).is_emergency
           /\ ~YieldApplies(a, dt'[a])
           /\ \E w \in SameLane(a) : CircAhead(Me(a), w) < CRITICAL_DIST)
              => LET v == Get(vehicles'[a], a)
                 IN  v.target_speed = 0 /\ v.braking /\ v.warning_vehicle_ahead]_vars

(* C13: on a tick where the driver is not impaired and the yield rule applies
   (an emergency vehicle on the own lane less than AMBULANCE_DIST behind on the
   circle, cooldown run out), the own vehicle's lane changes by exactly one, to
   lane + 1 unless it is on the outermost lane and to lane - 1 there, and the
   cooldown is set to 2.0 s. *)
C13_YieldToEmergency ==
    [][\A a \in agents :
          (OwnTick(a) /\ ~IsDrowsy(a) /\ YieldApplies(a, dt'[a]))
              => LET v == Get(vehicles'[a], a)
                 IN  /\ v.lane = IF Me(a).lane < LANE_COUNT - 1
                                 THEN Me(a).lane + 1 ELSE Me(a).lane - 1
                     /\ v.lane \in 0 .. (LANE_COUNT - 1)
                     /\ v.lane_change_cooldown = 2 * TimeUnit]_vars

-----------------------------------------------------------------------------
(* The keys of the wire message: the replicated fields *)
WireKeys == {"id", "lane", "x", "spd", "emb", "col", "drw", "brk"}

(* Two vehicles agree on every replicated field *)
SameReplicated(v, w) ==
    /\ w.id = v.id
    /\ w.lane = v.lane
    /\ w.x = v.x
    /\ w.speed = v.speed
    /\ w.is_emergency = v.is_emergency
    /\ w.color = v.color
    /\ w.drowsy_alert = v.drowsy_alert
    /\ w.braking = v.braking

(* C14: for every vehicle of a store, to_json builds a message with exactly
   the replicated fields, and from_json of that message, whatever the random
   draws of __init__ and the receive time, is a vehicle that agrees with it on
   every replicated field. *)
C14_CodecRoundTrip ==
    \A a \in agents :
        \A i \in DOMAIN vehicles[a] :
            LET v == vehicles[a][i].v
            IN  /\ DOMAIN to_json(v) = WireKeys
                /\ \A rx \in RulesX, rs \in InitSpeed, t \in {now[a]} :
                       LET w == from_json(to_json(v), rx, rs, RandColor, t)
                       IN  ~IsNone(w) /\ SameReplicated(v, w)

(* C14 witness: the store holds an own vehicle whose replicated fields all
   differ from the defaults of __init__ (lane 3, moved, slowed, drowsy_alert
   and braking set, the agent's colour), it has been published, and the store
   holds an emergency vehicle as well. *)
C14_Witness ==
    \E a \in agents :
        /\ pc[a] = "cleanup"
        /\ Me(a).lane = 3
        /\ Me(a).x > 0
        /\ Me(a).speed < 25 * SpdUnit
        /\ Me(a).drowsy_alert
        /\ Me(a).braking
        /\ Me(a).color # RandColor
        /\ to_json(Me(a)) \in published[a]
        /\ \E i \in DOMAIN vehicles[a] : vehicles[a][i].v.is_emergency

-----------------------------------------------------------------------------
(* C15: for every two vehicles of a store, the forward distances the scan
   computes from one to the other and back add up to TOTAL_LENGTH, or are both
   0 when the positions are equal; each lies in [0, TOTAL_LENGTH), and the
   scan's backward distance is the forward distance the other way round. *)
C15_CircularSymmetry ==
    \A a \in agents :
        \A i, j \in DOMAIN vehicles[a] :
            LET v == vehicles[a][i].v
                w == vehicles[a][j].v
                f == d_ahead(v, w)
                g == d_ahead(w, v)
            IN  i # j =>
                  /\ f + g = IF v.x = w.x THEN 0 ELSE TOTAL_LENGTH
                  /\ 0 <= f /\ f < TOTAL_LENGTH
                  /\ 0 <= g /\ g < TOTAL_LENGTH
                  /\ d_behind(v, w) = g

-----------------------------------------------------------------------------
(* C18: after every tick the own vehicle's drowsy_alert equals the impairment
   signal of that tick. *)
C18_DrowsyAlertCurrent ==
    [][\A a \in agents :
          OwnTick(a) => (Get(vehicles'[a], a).drowsy_alert <=> IsDrowsy(a))]_vars

-----------------------------------------------------------------------------
LaneInRange(l) == l \in 0 .. (LANE_COUNT - 1)

(* C19: the lane of the own vehicle, and of an owned AMB-1, is an integer in
   [0, LANE_COUNT), and the own vehicle's user_target_speed is within
   [0, MAX_SPEED_MS], after any sequence of lane buttons, speed buttons and
   ticks. *)
C19_LaneAndTargetRange ==
    \A a \in agents :
        /\ LaneInRange(Me(a).lane)
        /\ (i_own_ambulance[a] /\ Has(vehicles[a], AMB))
               => LaneInRange(Get(vehicles[a], AMB).lane)
        /\ 0 <= Me(a).user_target_speed
        /\ Me(a).user_target_speed <= MAX_SPEED_MS

(* C19 witness: the Faster button has run into the clamp (MAX_SPEED_MS is no
   multiple of the step above 25), and a yield on the outermost lane has just
   moved the own vehicle inward, to lane 2, away from an ambulance on lane 3. *)
C19_Witness ==
    \E a \in agents :
        /\ pc[a] = "amb"
        /\ Me(a).user_target_speed = MAX_SPEED_MS
        /\ (MAX_SPEED_MS - 25 * SpdUnit) % (5 * SpdUnit) # 0
        /\ Me(a).lane = LANE_COUNT - 2
        /\ Me(a).lane_change_cooldown = 2 * TimeUnit
        /\ Has(vehicles[a], AMB)
        /\ Get(vehicles[a], AMB).lane = LANE_COUNT - 1

-----------------------------------------------------------------------------
(* The step of run() that holds line 408: the owned ambulance's update_physics *)
AmbTick(a) ==
    /\ pc[a] = "amb" /\ pc'[a] = "visuals"
    /\ i_own_ambulance[a] /\ Has(vehicles[a], AMB)

(* C20: every tick decrements the cooldown by the frame's dt, whichever rule
   fires; the decision engine changes a lane only on a tick where the
   decremented cooldown has run out, and then sets the cooldown to 1.0 s (an
   impaired move) or 2.0 s (a yield); no other step touches the cooldown.  So
   between two lane changes by the engine the ticks add up to at least the
   cooldown the first one set. *)
C20_LaneChangeCooldown ==
    [][\A a \in agents :
          /\ OwnTick(a) =>
                 LET c == Me(a).lane_change_cooldown - dt'[a]
                     v == Get(vehicles'[a], a)
                 IN  /\ v.lane # Me(a).lane =>
                            /\ c <= 0
                            /\ v.lane_change_cooldown =
                                   IF IsDrowsy(a) THEN 1 * TimeUnit ELSE 2 * TimeUnit
                     /\ v.lane = Me(a).lane => v.lane_change_cooldown = c
          /\ AmbTick(a) =>
                 LET w == Get(vehicles[a], AMB)
                     v == Get(vehicles'[a], AMB)
                 IN  /\ v.lane = w.lane
                     /\ v.lane_change_cooldown = w.lane_change_cooldown - dt[a]
          /\ (~OwnTick(a) /\ pc'[a] # "crashed") =>
                 Get(vehicles'[a], a).lane_change_cooldown = Me(a).lane_change_cooldown]_vars

(* C20 witness: one second after a yield (cooldown 2.0 - 1.0) the own vehicle,
   never impaired, is back on the lane of the ambulance less than
   AMBULANCE_DIST behind it, and the tick that has just run left its lane
   alone. *)
C20_Witness ==
    \E a \in agents :
        /\ pc[a] = "amb"
        /\ ~IsDrowsy(a)
        /\ ~Me(a).drowsy_alert
        /\ Me(a).lane_change_cooldown = 2 * TimeUnit - dt[a]
        /\ Me(a).lane_change_cooldown > 0
        /\ \E w \in SameLane(a) : w.is_emergency /\ CircBehind(Me(a), w) < AMBULANCE_DIST

-----------------------------------------------------------------------------
(* The replicas a sweep of agent a may remove: not the own id, not an owned
   AMB-1 *)
Evictable(a) ==
    {i \in DOMAIN vehicles[a] :
        /\ vehicles[a][i].key # a
        /\ ~(vehicles[a][i].key = AMB /\ i_own_ambulance[a])
        /\ ~IsNone(vehicles[a][i].v)}

(* The peer is silent, no message of it is being handled, and the loop has the
   time for the sweeps of the next GHOST_TIMEOUT and one frame more *)
SilentPeerKnown(a) ==
    /\ Has(vehicles[a], "CAR2")
    /\ net[a].pc = "idle"
    /\ now[a] >= PeerSilentAt
    /\ now[a] + GHOST_TIMEOUT + 2 <= SweepMaxTime

(* C16: once the peer CAR2 is silent, its replica is eventually removed from
   the store; when a sweep has returned, no replica it may remove is older than
   GHOST_TIMEOUT (so the removal comes no later than the first sweep after the
   timeout); and a sweep removes a replica only if it is older than
   GHOST_TIMEOUT (so a replica refreshed in time is never removed). *)
C16_SelfHealingEviction ==
    /\ SilentPeerKnown(Solo) ~> ~Has(vehicles[Solo], "CAR2")
    /\ [](pc[Solo] = "events" =>
            \A i \in Evictable(Solo) :
                now[Solo] - vehicles[Solo][i].v.last_update <= GHOST_TIMEOUT)
    /\ [][\A i \in Evictable(Solo) :
              ~Has(vehicles'[Solo], vehicles[Solo][i].key)
                  => now[Solo] - vehicles[Solo][i].v.last_update > GHOST_TIMEOUT]_vars

(* C16 witness: the peer fell silent, its replica, refreshed for the last time
   after the first frame, outlived the sweeps up to age GHOST_TIMEOUT, and the
   sweep that has just returned removed it. *)
C16_Witness ==
    /\ pc[Solo] = "events"
    /\ ghosts[Solo] = {"CAR2"}
    /\ ~Has(vehicles[Solo], "CAR2")
    /\ now[Solo] = 2 + GHOST_TIMEOUT + 2

-----------------------------------------------------------------------------
(* The own vehicle stands on the service lane *)
PulledOver(a) == Me(a).lane = SERVICE_LANE_INDEX /\ Me(a).speed = 0

(* C17: with the impairment signal true from the start and no lane command,
   the own vehicle eventually stands on the service lane (unless the signal
   goes false); on the service lane every impaired tick sets target speed 0
   and braking and keeps a speed of 0 at 0; and while the signal is true no
   step takes the vehicle off the service lane. *)
C17_ImpairedPullOver ==
    /\ (IsDrowsy(Solo) /\ now[Solo] = 0) ~> (~IsDrowsy(Solo) \/ PulledOver(Solo))
    /\ [][(OwnTick(Solo) /\ IsDrowsy(Solo) /\ Me(Solo).lane = SERVICE_LANE_INDEX)
              => LET v == Get(vehicles'[Solo], Solo)
                 IN  /\ v.target_speed = 0
                     /\ v.braking
                     /\ Me(Solo).speed = 0 => v.speed = 0]_vars
    /\ [][(IsDrowsy(Solo) /\ Me(Solo).lane = SERVICE_LANE_INDEX)
              => Get(vehicles'[Solo], Solo).lane = SERVICE_LANE_INDEX]_vars

(* C17 witness: the signal is true, the own vehicle has been moved by the
   engine from lane 1 to the service lane, has braked to a stop there, and a
   further impaired tick has left it standing. *)
C17_Witness ==
    /\ pc[Solo] = "amb"
    /\ IsDrowsy(Solo)
    /\ PulledOver(Solo)
    /\ Me(Solo).braking
    /\ Me(Solo).target_speed = 0
    /\ Me(Solo).x > 0
    /\ now[Solo] = PullOverMaxTime

-----------------------------------------------------------------------------
(* The callback of agent a applies its message in this step: line 330 or
   lines 332-336 run and on_message returns *)
Applies(a) == net[a].pc \in {"insert", "update"} /\ net'[a].pc = "idle"

(* The entry v carries the values of the message p, received at time t *)
CarriesMessage(v, p, t) ==
    /\ ~IsNone(v)
    /\ v.lane = p.lane
    /\ v.x = p.x
    /\ v.speed = p.spd
    /\ v.is_emergency = p.emb
    /\ v.drowsy_alert = p.drw
    /\ v.braking = p.brk
    /\ v.last_update = t

(* C21: when the callback applies a well-formed message whose id is neither
   the agent's own nor an owned AMB-1, the store afterwards has an entry for
   that id with the message's lane, position, speed, emergency flag,
   drowsy_alert and braking and with the receive time as last_update; a
   replica known before keeps its colour and visual lane; every other entry
   of the store is left as it was. *)
C21_MergeLastWriteWins ==
    [][\A a \in agents :
          LET p == net[a].payload
          IN  (/\ Applies(a)
               /\ ~Malformed(p)
               /\ WireKeys \subseteq DOMAIN p
               /\ p.id # a
               /\ ~(p.id = AMB /\ i_own_ambulance[a]))
                  => /\ Has(vehicles'[a], p.id)
                     /\ CarriesMessage(Get(vehicles'[a], p.id), p, now[a])
                     /\ (Has(vehicles[a], p.id) /\ ~IsNone(Get(vehicles[a], p.id))) =>
                            /\ Get(vehicles'[a], p.id).color = Get(vehicles[a], p.id).color
                            /\ Get(vehicles'[a], p.id).visual_lane
                                   = Get(vehicles[a], p.id).visual_lane
                     /\ \A k \in Keys(vehicles[a]) \ {p.id} :
                            Has(vehicles'[a], k)
                                /\ Get(vehicles'[a], k) = Get(vehicles[a], k)]_vars

=============================================================================
